---------------------------- MODULE Spec2Model ----------------------------
(***************************************************************************)
(* The retrieval-augmented answer pipeline of rag-comparison-framework:    *)
(* RAGQueryEngine (src/rag/query_engine.py) with its collaborators, the    *)
(* retriever (src/rag/retriever.py) and the language model service         *)
(* (src/models/openai_service.py), and the web route that calls it         *)
(* (src/api/routes.py, src/utils/error_handler.py).                        *)
(*                                                                         *)
(* A text is a sequence of atoms (strings).  Judge answers are spelled     *)
(* character by character, so that upper-casing and substring search are   *)
(* computed; fixed blocks of prompt text are one atom each.                *)
(***************************************************************************)
EXTENDS Integers, Sequences, FiniteSets, TLC

VARIABLES
    system_prompt_template, \* RAGQueryEngine.system_prompt_template
    query_engine,           \* app.config['QUERY_ENGINE'] is set
    pc,                     \* position of the call in progress
    entry,                  \* who called: "route", "direct", "check" or "none"
    query_text,             \* argument of query() / check_relevance()
    retrieve_calls,         \* calls made to retriever.retrieve, in order
    retrieved_docs,         \* local of query(): what retrieve returned
    assessment,             \* <<>> until assess_document_relevance returned,
                            \* then <<can_enhance, relevant_docs>>
    llm_calls,              \* calls made to llm_service.generate_text, in order
    env,                    \* what the collaborators answer during this call
    outcome,                \* "none", "returned" or "raised"
    error,                  \* the exception that left query(), "" if none
    response,               \* the text returned by query()
    is_relevant,            \* what check_relevance returned
    http_status,            \* status of the route's response, 0 while none
    parked,                 \* the frame of a second caller's query(), waiting
    client,                 \* OpenAIService.client: the API key it was made with
    default_api_key,        \* app.config['DEFAULT_API_KEY']
    last_update,            \* the last call of update_api_key, NoUpdate if none
    config_error,           \* exception raised inside configure_api, "" if none
    config_status,          \* status of the last /api/config response, 0 if none
    comparison,             \* _extract_ranking: the judge's comparison text
    variant_names,          \* _extract_ranking: the variants, in input order
    ranking,                \* what _extract_ranking returned
    ranking_state,          \* "none", "called", "returned" or "raised"
    variants,               \* RAGComparisonEngine.variants, by name
    variant_env,            \* what each variant's query() does in this call
    progress_callback,      \* query_all_variants: a callback was given
    variant_i,              \* query_all_variants: variants done so far
    queried,                \* the variants whose query() was called, in order
    progress,               \* the calls made to progress_callback
    results,                \* query_all_variants: the mapping being built
    variants_pc,            \* "none", "loop" or "returned"
    file_path,              \* the path given to the loader: suffix, existence
    loader_env,             \* what the langchain loader does on that file
    load_entry,             \* "pdf", "text" (a loader's load) or "load_document"
    load_pc,                \* "none", "called", "returned" or "raised"
    load_error,             \* class of the exception that left the call
    loaded_documents,       \* number of documents the call returned
    vector_store,           \* FAISSVectorStoreManager.vector_store
    store_before,           \* vector_store when the last call began
    store_op,               \* the last call on the manager and its exception
    store_calls             \* calls made on the manager

vars == <<system_prompt_template, query_engine, pc, entry, query_text,
          retrieve_calls, retrieved_docs, assessment, llm_calls, env,
          outcome, error, response, is_relevant, http_status, parked,
          client, default_api_key, last_update, config_error, config_status,
          comparison, variant_names, ranking, ranking_state,
          variants, variant_env, progress_callback, variant_i, queried,
          progress, results, variants_pc,
          file_path, loader_env, load_entry, load_pc, load_error,
          loaded_documents, vector_store, store_before, store_op, store_calls>>

\* the service's key and the /api/config route
keyVars == <<client, default_api_key, last_update, config_error, config_status>>

\* the engine, the call of query() in progress and the waiting caller
queryVars == <<system_prompt_template, query_engine, pc, entry, query_text,
               retrieve_calls, retrieved_docs, assessment, llm_calls, env,
               outcome, error, response, is_relevant, http_status, parked>>

\* LLMDiscriminator._extract_ranking
rankingVars == <<comparison, variant_names, ranking, ranking_state>>

\* RAGComparisonEngine.query_all_variants
variantVars == <<variants, variant_env, progress_callback, variant_i, queried,
                 progress, results, variants_pc>>

\* document_loader
loaderVars == <<file_path, loader_env, load_entry, load_pc, load_error,
                loaded_documents>>

\* FAISSVectorStoreManager
storeVars == <<vector_store, store_before, store_op, store_calls>>

\* what a call of query() leaves alone outside its engine
aside == <<keyVars, rankingVars, variantVars, loaderVars, storeVars>>

---------------------------------------------------------------------------
(* Bounds *)

\* most passages one retrieval returns in the model (at most K in the code)
MaxDocs == 2

---------------------------------------------------------------------------
(* Program constants *)

\* default k of retrieve()
K == 4
\* temperatures, in tenths
AssessTemperature == 2
CheckTemperature == 1
PrimaryTemperature == 7
DefaultTemperature == 7
\* output budgets
AssessMaxTokens == 50
CheckMaxTokens == 10
DefaultMaxTokens == 1000
\* status codes
StatusOK == 200
StatusBadRequest == 400
StatusNotFound == 404
StatusInternalError == 500

---------------------------------------------------------------------------
(* Inputs *)

\* request bodies' 'query' field; Missing is a body without the field
Missing == "<missing>"
Questions == {"", "   ", "What is the password policy?"}
RequestQueries == Questions \cup {Missing}

\* page_content of the stored passages
PassageTexts == { <<"passwords must be 12 characters">>,
                  <<" ", "Paris is the capital of France", "\n">> }

\* what the model answers to a judge prompt
JudgeTexts == {
    <<"E","N","H","A","N","C","E">>,
    <<"N","O","_","E","N","H","A","N","C","E","M","E","N","T">>,
    <<"e","n","h","a","n","c","e">>,
    <<"n","o","_","e","n","h","a","n","c","e","m","e","n","t">>,
    <<"E","N","H","A","N","C","E"," ","N","O","_","E","N","H","A","N","C","E","M","E","N","T">>,
    <<"R","E","L","E","V","A","N","T">>,
    <<"N","O","T","_","R","E","L","E","V","A","N","T">>,
    <<"r","e","l","e","v","a","n","t">>,
    <<"N","o","t","_","R","e","l","e","v","a","n","t">>,
    <<"M","A","Y","B","E">>,
    <<>> }

\* what the model answers to a generation prompt
AnswerTexts == { <<"Passwords must be 12 characters.">>,
                 <<"I can answer from general knowledge.", "\n">> }

RECURSIVE SeqsUpTo(_, _)
SeqsUpTo(S, n) ==
    IF n = 0 THEN { <<>> }
    ELSE LET shorter == SeqsUpTo(S, n - 1)
         IN  shorter \cup { Append(s, x) : s \in shorter, x \in S }

Min(a, b) == IF a <= b THEN a ELSE b

\* what similarity_search(query, k) can return
DocumentLists == SeqsUpTo(PassageTexts, Min(K, MaxDocs))


---------------------------------------------------------------------------
(* Text helpers *)

Whitespace == {" ", "\n", "\t"}

\* str.strip(): leading and trailing whitespace removed
RECURSIVE LStrip(_)
LStrip(t) ==
    IF t # <<>> /\ Head(t) \in Whitespace THEN LStrip(Tail(t)) ELSE t

RECURSIVE RStrip(_)
RStrip(t) ==
    IF t # <<>> /\ t[Len(t)] \in Whitespace
    THEN RStrip(SubSeq(t, 1, Len(t) - 1)) ELSE t

Strip(t) == RStrip(LStrip(t))

\* sep.join(parts)
RECURSIVE Join(_, _)
Join(sep, parts) ==
    IF parts = <<>> THEN <<>>
    ELSE IF Len(parts) = 1 THEN parts[1]
    ELSE parts[1] \o sep \o Join(sep, Tail(parts))

\* str.upper() on one character
UpperChar(c) ==
    CASE c = "a" -> "A" [] c = "b" -> "B" [] c = "c" -> "C" [] c = "e" -> "E"
      [] c = "h" -> "H" [] c = "l" -> "L" [] c = "m" -> "M" [] c = "n" -> "N"
      [] c = "o" -> "O" [] c = "r" -> "R" [] c = "t" -> "T" [] c = "v" -> "V"
      [] c = "y" -> "Y"
      [] OTHER -> c

Upper(t) == [i \in 1..Len(t) |-> UpperChar(t[i])]

\* needle in hay, searched from position i on
RECURSIVE FoundFrom(_, _, _)
FoundFrom(needle, hay, i) ==
    IF i + Len(needle) - 1 > Len(hay) THEN FALSE
    ELSE IF SubSeq(hay, i, i + Len(needle) - 1) = needle THEN TRUE
    ELSE FoundFrom(needle, hay, i + 1)

\* Python's  needle in hay  on strings
In(needle, hay) == FoundFrom(needle, hay, 1)

---------------------------------------------------------------------------
(* RAGQueryEngine: prompt texts *)

\* the slots of a prompt template
ContextSlot == "{context}"
QuestionSlot == "{question}"

\* RAGQueryEngine.__init__: the default template
DefaultTemplate ==
    << "You are a helpful assistant ... Document information (if relevant):\n",
       ContextSlot, "\n\nQuestion: ", QuestionSlot, "\nAnswer:" >>

\* config.RAG_SYSTEM_PROMPT_TEMPLATE, which create_app passes to the engine
ConfigTemplate ==
    << "You are a helpful assistant that answers questions ... Context:\n",
       ContextSlot, "\n\nQuestion: ", QuestionSlot, "\nAnswer:" >>

Templates == {DefaultTemplate, ConfigTemplate}

\* str.format(context=..., question=...) on a template
RECURSIVE Format(_, _, _)
Format(template, context, question) ==
    IF template = <<>> THEN <<>>
    ELSE LET piece == IF Head(template) = ContextSlot THEN context
                      ELSE IF Head(template) = QuestionSlot THEN <<question>>
                      ELSE <<Head(template)>>
         IN  piece \o Format(Tail(template), context, question)

NoDocumentsText == <<"No relevant documents found.">>

SentinelContext ==
    <<"No specific information about this topic was found in NovaTech's security policy documents.">>

FallbackSystemPrompt ==
    <<"You are a helpful assistant. Please answer the following question based on your general knowledge.">>

AssessUserPrompt ==
    <<"Analyze whether these documents would enhance a response about NovaTech's security policies.">>

CheckUserPrompt ==
    <<"Determine RELEVANT or NOT_RELEVANT based on the criteria above.">>

\* extracts numbered from 0: enumerate's index without the + 1
Extract_ZeroBased(i, doc) == <<"Extract ", ToString(i - 1), ":\n">> \o Strip(doc)

\* format_documents: one extract of the list
Extract(i, doc) == <<"Extract ", ToString(i), ":\n">> \o Strip(doc)

\* format_documents
format_documents(documents) ==
    IF documents = <<>> THEN NoDocumentsText
    ELSE Join(<<"\n\n">>, [i \in 1..Len(documents) |-> Extract(i, documents[i])])

\* assess_document_relevance: analysis_prompt
AnalysisPrompt(q, docs_text) ==
    << "Your task is to determine if the retrieved documents ... would meaningfully enhance ...",
       "Query: ", q, "\n\n", "Document Extracts:\n" >> \o docs_text \o
    << "\n\n", "First, determine ... Respond with one of these options: ENHANCE ... NO_ENHANCEMENT ..." >>

\* check_relevance: prompt; the line holding {context} is not an f-string,
\* so the braces stay in the prompt and the formatted documents do not enter it
RelevancePrompt(q, context) ==
    << "Your task is to determine if the retrieved documents ... directly answers ...",
       "Query: ", q, "\n\n", "Retrieved documents:\n", "{context}", "\n\n",
       "First, analyze ... Respond with ONLY ONE WORD: either 'RELEVANT' or 'NOT_RELEVANT'." >>

\* the tokens of the two judges
ENHANCE == <<"E","N","H","A","N","C","E">>
NO_ENHANCEMENT == <<"N","O","_","E","N","H","A","N","C","E","M","E","N","T">>
RELEVANT == <<"R","E","L","E","V","A","N","T">>
NOT_RELEVANT == <<"N","O","T","_","R","E","L","E","V","A","N","T">>

\* a verdict read from the positive token alone
Enhance_PositiveOnly(analysis) == In(ENHANCE, Upper(analysis))

\* assess_document_relevance: the verdict read from the judge's text
Enhance(analysis) ==
    In(ENHANCE, Upper(analysis)) /\ ~In(NO_ENHANCEMENT, Upper(analysis))

\* check_relevance: the verdict read from the judge's text
IsRelevant(text) ==
    In(RELEVANT, Upper(text)) /\ ~In(NOT_RELEVANT, Upper(text))

\* a gate without its short-circuit on an empty list
NoDocuments_Never(docs) == FALSE

\* the test written the wrong way round:  if retrieved_docs
NoDocuments_Inverted(docs) == Len(docs) # 0

\* Python's  not retrieved_docs  on a list
NoDocuments(docs) == Len(docs) = 0

\* a route without its test of the query
NoQuery_Never(q) == FALSE

\* Python's  not query  on a string
NoQuery(q) == q = ""


---------------------------------------------------------------------------
(* Collaborators *)

\* What the passage index and the language model answer during one call:
\* retrieval succeeds with docs or raises, and each generate_text call (the
\* judge's, the primary, the fallback) succeeds with a text or raises.
Environments ==
    { [retrieve_ok |-> ro, docs |-> d, judge_ok |-> jo, judge_text |-> jt,
       primary_ok |-> po, primary_text |-> pt,
       fallback_ok |-> fo, fallback_text |-> ft] :
        ro \in BOOLEAN, d \in DocumentLists, jo \in BOOLEAN, jt \in JudgeTexts,
        po \in BOOLEAN, pt \in AnswerTexts, fo \in BOOLEAN, ft \in AnswerTexts }

\* one environment per distinguishable behaviour: what a failing call would
\* have answered is left out
Normal(e) ==
    /\ ~e.retrieve_ok => e.docs = <<>>
    /\ ~e.judge_ok => e.judge_text = <<>>
    /\ ~e.primary_ok => e.primary_text = CHOOSE t \in AnswerTexts : TRUE
    /\ ~e.fallback_ok => e.fallback_text = CHOOSE t \in AnswerTexts : TRUE

\* the collaborators' behaviours a call can meet
NormalEnvironments == { e \in Environments : Normal(e) }

NoEnvironment ==
    [retrieve_ok |-> FALSE, docs |-> <<>>, judge_ok |-> FALSE, judge_text |-> <<>>,
     primary_ok |-> FALSE, primary_text |-> CHOOSE t \in AnswerTexts : TRUE,
     fallback_ok |-> FALSE, fallback_text |-> CHOOSE t \in AnswerTexts : TRUE]

\* VectorStoreRetriever.retrieve: any failure leaves as this ValueError
RetrievalError == "ValueError: Failed to retrieve documents"

\* OpenAIService.generate_text: any failure leaves as this ValueError
GenerationError == "ValueError: Failed to generate text with OpenAI"

\* a service that strips the generated text before returning it
generate_text_Stripped(site, system_prompt, user_prompt, temperature, max_tokens, ok, text) ==
    [site |-> site,
     client |-> client,
     system_prompt |-> system_prompt,
     user_prompt |-> user_prompt,
     temperature |-> IF temperature # 0 THEN temperature ELSE DefaultTemperature,
     max_tokens |-> IF max_tokens # 0 THEN max_tokens ELSE DefaultMaxTokens,
     raised |-> ~ok,
     text |-> IF ok THEN Strip(text) ELSE <<>>]

\* OpenAIService.generate_text: one call, as the service saw it and answered it;
\* a temperature or max_tokens of 0 stands for None (not given)
generate_text(site, system_prompt, user_prompt, temperature, max_tokens, ok, text) ==
    [site |-> site,
     client |-> client,
     system_prompt |-> system_prompt,
     user_prompt |-> user_prompt,
     temperature |-> IF temperature # 0 THEN temperature ELSE DefaultTemperature,
     max_tokens |-> IF max_tokens # 0 THEN max_tokens ELSE DefaultMaxTokens,
     raised |-> ~ok,
     text |-> IF ok THEN text ELSE <<>>]

---------------------------------------------------------------------------
(* RAGQueryEngine.query *)

\* the statements of query() inside its try block
TrySites == {"retrieve", "assess", "primary"}

\* query() without its try block
Handler_NoTry(site) == "raise"

\* query() with the primary generation call outside its try block
Handler_PrimaryOutside(site) ==
    IF site \in {"retrieve", "assess"} THEN "fallback" ELSE "raise"

\* query() with the fallback call retried when it fails
Handler_CatchAll(site) == "fallback"

\* where an exception raised at a site of query() goes: the except clause of
\* the try block runs the fallback, anything raised outside it leaves query()
Handler(site) == IF site \in TrySites THEN "fallback" ELSE "raise"

\* an exception raised at a site of query()
Raise(site, err) ==
    /\ pc' = IF Handler(site) = "fallback" THEN "fallback" ELSE "done"
    /\ outcome' = IF Handler(site) = "fallback" THEN outcome ELSE "raised"
    /\ error' = IF Handler(site) = "fallback" THEN error ELSE err

\* a query() that assesses without having retrieved
CallQuery_SkipRetrieve(q, e) ==
    /\ pc = "idle"
    /\ query_engine
    /\ pc' = "assess"
    /\ entry' = "direct"
    /\ query_text' = q
    /\ env' = e
    /\ UNCHANGED <<aside, parked, system_prompt_template, query_engine, retrieve_calls,
                   retrieved_docs, assessment, llm_calls, outcome, error,
                   response, is_relevant, http_status>>

\* a caller that holds the engine calls query(q) directly
CallQuery(q, e) ==
    /\ pc = "idle"
    /\ query_engine
    /\ pc' = "retrieve"
    /\ entry' = "direct"
    /\ query_text' = q
    /\ env' = e
    /\ UNCHANGED <<aside, parked, system_prompt_template, query_engine, retrieve_calls,
                   retrieved_docs, assessment, llm_calls, outcome, error,
                   response, is_relevant, http_status>>

\* retrieved_docs = self.retriever.retrieve(query_text), returning
RetrieveOk ==
    /\ pc = "retrieve"
    /\ env.retrieve_ok
    /\ retrieve_calls' = Append(retrieve_calls,
                                [query |-> query_text, k |-> K, raised |-> FALSE])
    /\ retrieved_docs' = env.docs
    /\ pc' = "assess"
    /\ UNCHANGED <<aside, parked, system_prompt_template, query_engine, entry, query_text,
                   assessment, llm_calls, env, outcome, error, response,
                   is_relevant, http_status>>

\* retrieved_docs = self.retriever.retrieve(query_text), raising
RetrieveRaise ==
    /\ pc = "retrieve"
    /\ ~env.retrieve_ok
    /\ retrieve_calls' = Append(retrieve_calls,
                                [query |-> query_text, k |-> K, raised |-> TRUE])
    /\ Raise("retrieve", RetrievalError)
    /\ UNCHANGED <<aside, parked, system_prompt_template, query_engine, entry, query_text,
                   retrieved_docs, assessment, llm_calls, env, response,
                   is_relevant, http_status>>

\* assess_document_relevance on no documents: (False, []) without a call
AssessEmpty ==
    /\ pc = "assess"
    /\ NoDocuments(retrieved_docs)
    /\ assessment' = <<FALSE, <<>>>>
    /\ pc' = "generate"
    /\ UNCHANGED <<aside, parked, system_prompt_template, query_engine, entry, query_text,
                   retrieve_calls, retrieved_docs, llm_calls, env, outcome,
                   error, response, is_relevant, http_status>>

\* the judge call of assess_document_relevance
AssessCall ==
    generate_text("assess",
                  AnalysisPrompt(query_text, format_documents(retrieved_docs)),
                  AssessUserPrompt, AssessTemperature, AssessMaxTokens,
                  env.judge_ok, env.judge_text)

\* assess_document_relevance on documents, the judge answering
AssessOk ==
    /\ pc = "assess"
    /\ ~NoDocuments(retrieved_docs)
    /\ env.judge_ok
    /\ llm_calls' = Append(llm_calls, AssessCall)
    /\ assessment' = <<Enhance(llm_calls'[Len(llm_calls')].text), retrieved_docs>>
    /\ pc' = "generate"
    /\ UNCHANGED <<aside, parked, system_prompt_template, query_engine, entry, query_text,
                   retrieve_calls, retrieved_docs, env, outcome, error,
                   response, is_relevant, http_status>>

\* assess_document_relevance on documents, the judge call raising: nothing in
\* assess_document_relevance catches it
AssessRaise ==
    /\ pc = "assess"
    /\ ~NoDocuments(retrieved_docs)
    /\ ~env.judge_ok
    /\ llm_calls' = Append(llm_calls, AssessCall)
    /\ Raise("assess", GenerationError)
    /\ UNCHANGED <<aside, parked, system_prompt_template, query_engine, entry, query_text,
                   retrieve_calls, retrieved_docs, assessment, env, response,
                   is_relevant, http_status>>

\* a context made of the retrieved documents whatever the verdict
Context_DocsAlways(can_enhance, relevant_docs) == format_documents(relevant_docs)

\* a context left empty when the documents are not used
Context_NoSentinel(can_enhance, relevant_docs) ==
    IF can_enhance /\ Len(relevant_docs) # 0
    THEN format_documents(relevant_docs)
    ELSE <<>>

\* query(): the context chosen from the assessment
Context(can_enhance, relevant_docs) ==
    IF can_enhance /\ ~NoDocuments(relevant_docs)
    THEN format_documents(relevant_docs)
    ELSE SentinelContext

\* query(): the primary generation call
PrimaryCall ==
    generate_text("primary",
                  Format(system_prompt_template,
                         Context(assessment[1], assessment[2]), query_text),
                  <<query_text>>, PrimaryTemperature, 0,
                  env.primary_ok, env.primary_text)

\* the primary generation answering: return response
GenerateOk ==
    /\ pc = "generate"
    /\ env.primary_ok
    /\ llm_calls' = Append(llm_calls, PrimaryCall)
    /\ response' = PrimaryCall.text
    /\ outcome' = "returned"
    /\ pc' = "done"
    /\ UNCHANGED <<aside, parked, system_prompt_template, query_engine, entry, query_text,
                   retrieve_calls, retrieved_docs, assessment, env, error,
                   is_relevant, http_status>>

\* the primary generation raising
GenerateRaise ==
    /\ pc = "generate"
    /\ ~env.primary_ok
    /\ llm_calls' = Append(llm_calls, PrimaryCall)
    /\ Raise("primary", GenerationError)
    /\ UNCHANGED <<aside, parked, system_prompt_template, query_engine, entry, query_text,
                   retrieve_calls, retrieved_docs, assessment, env, response,
                   is_relevant, http_status>>

\* a fallback that reuses the template prompt
FallbackCall_Template ==
    generate_text("fallback",
                  Format(system_prompt_template, SentinelContext, query_text),
                  <<query_text>>, 0, 0, env.fallback_ok, env.fallback_text)

\* query(): the fallback generation call of the except clause
FallbackCall ==
    generate_text("fallback", FallbackSystemPrompt, <<query_text>>, 0, 0,
                  env.fallback_ok, env.fallback_text)

\* the fallback generation answering: return fallback_response
FallbackOk ==
    /\ pc = "fallback"
    /\ env.fallback_ok
    /\ llm_calls' = Append(llm_calls, FallbackCall)
    /\ response' = FallbackCall.text
    /\ outcome' = "returned"
    /\ pc' = "done"
    /\ UNCHANGED <<aside, parked, system_prompt_template, query_engine, entry, query_text,
                   retrieve_calls, retrieved_docs, assessment, env, error,
                   is_relevant, http_status>>

\* the fallback generation raising: the exception leaves query()
FallbackRaise ==
    /\ pc = "fallback"
    /\ ~env.fallback_ok
    /\ llm_calls' = Append(llm_calls, FallbackCall)
    /\ Raise("fallback", GenerationError)
    /\ UNCHANGED <<aside, parked, system_prompt_template, query_engine, entry, query_text,
                   retrieve_calls, retrieved_docs, assessment, env, response,
                   is_relevant, http_status>>

---------------------------------------------------------------------------
(* RAGQueryEngine.check_relevance *)

\* check_relevance(q, docs), called on its own: one judge call inside a try
\* block whose except clause returns False
CheckRelevance(q, docs, ok, text) ==
    LET call == generate_text("check",
                              RelevancePrompt(q, format_documents(docs)),
                              CheckUserPrompt, CheckTemperature, CheckMaxTokens,
                              ok, text)
    IN  /\ pc = "idle"
        /\ query_engine
        /\ pc' = "checked"
        /\ entry' = "check"
        /\ query_text' = q
        /\ retrieved_docs' = docs
        /\ llm_calls' = Append(llm_calls, call)
        /\ is_relevant' = IF ok THEN IsRelevant(call.text) ELSE FALSE
        /\ UNCHANGED <<system_prompt_template, retrieve_calls, assessment,
                       env, outcome, error, response, http_status>>
        /\ UNCHANGED <<aside, parked, query_engine>>

---------------------------------------------------------------------------
(* POST /api/query *)

\* a decorator without its clause for exceptions that are no APIError: the
\* exception leaves the route and no response is made
ErrorStatus_APIErrorOnly(exception) ==
    CASE exception = "BadRequestError" -> StatusBadRequest
      [] exception = "NotFoundError" -> StatusNotFound
      [] OTHER -> 0

\* api_error_handler: the status of the response made from an exception
ErrorStatus(exception) ==
    CASE exception = "BadRequestError" -> StatusBadRequest
      [] exception = "NotFoundError" -> StatusNotFound
      [] OTHER -> StatusInternalError

\* data.get('query', '')
QueryField(req) == IF req = Missing THEN "" ELSE req

\* process_query: no query provided
ProcessQueryNoQuery(req) ==
    /\ pc = "idle"
    /\ NoQuery(QueryField(req))
    /\ entry' = "route"
    /\ query_text' = QueryField(req)
    /\ http_status' = ErrorStatus("BadRequestError")
    /\ pc' = "responded"
    /\ UNCHANGED <<aside, parked, system_prompt_template, query_engine, retrieve_calls,
                   retrieved_docs, assessment, llm_calls, env, outcome, error,
                   response, is_relevant>>

\* process_query: no query engine in the application context
ProcessQueryNoEngine(req) ==
    /\ pc = "idle"
    /\ ~NoQuery(QueryField(req))
    /\ ~query_engine
    /\ entry' = "route"
    /\ query_text' = QueryField(req)
    /\ http_status' = ErrorStatus("NotFoundError")
    /\ pc' = "responded"
    /\ UNCHANGED <<aside, parked, system_prompt_template, query_engine, retrieve_calls,
                   retrieved_docs, assessment, llm_calls, env, outcome, error,
                   response, is_relevant>>

\* process_query: query_engine.query(query) is called
ProcessQueryCall(req, e) ==
    /\ pc = "idle"
    /\ ~NoQuery(QueryField(req))
    /\ query_engine
    /\ entry' = "route"
    /\ query_text' = QueryField(req)
    /\ env' = e
    /\ pc' = "retrieve"
    /\ UNCHANGED <<aside, parked, system_prompt_template, query_engine, retrieve_calls,
                   retrieved_docs, assessment, llm_calls, outcome, error,
                   response, is_relevant, http_status>>

\* process_query: query() is over; its text is sent, or its exception becomes
\* a BadRequestError
ProcessQueryRespond ==
    /\ pc = "done"
    /\ entry = "route"
    /\ http_status' = IF outcome = "returned" THEN StatusOK
                      ELSE ErrorStatus("BadRequestError")
    /\ pc' = "responded"
    /\ UNCHANGED <<aside, parked, system_prompt_template, query_engine, entry, query_text,
                   retrieve_calls, retrieved_docs, assessment, llm_calls, env,
                   outcome, error, response, is_relevant>>

---------------------------------------------------------------------------
(* Several callers of one engine *)

\* a query() whose retrieved_docs would be an attribute of the engine
Locals_DocsOnSelf == {"query_text", "assessment", "response"}

\* the names query() binds are local to the call: it assigns no attribute of
\* self
Locals == {"query_text", "retrieved_docs", "assessment", "response"}

\* the frame of the call in progress
Frame ==
    [pc |-> pc, entry |-> entry, query_text |-> query_text,
     retrieve_calls |-> retrieve_calls, retrieved_docs |-> retrieved_docs,
     assessment |-> assessment, llm_calls |-> llm_calls, env |-> env,
     outcome |-> outcome, error |-> error, response |-> response,
     is_relevant |-> is_relevant, http_status |-> http_status]

\* the frame of a caller that is not in a call
IdleFrame ==
    [pc |-> "idle", entry |-> "none", query_text |-> "",
     retrieve_calls |-> <<>>, retrieved_docs |-> <<>>,
     assessment |-> <<>>, llm_calls |-> <<>>, env |-> NoEnvironment,
     outcome |-> "none", error |-> "", response |-> <<>>,
     is_relevant |-> FALSE, http_status |-> 0]

\* what a caller finds under a name when it runs again: its own value when
\* the name is local, what the other caller left when it is not
Resumed(name, own, left) == IF name \in Locals THEN own ELSE left

\* the interpreter switches from the running caller to the waiting one
SwitchThread ==
    /\ parked' = Frame
    /\ pc' = parked.pc
    /\ entry' = parked.entry
    /\ query_text' = Resumed("query_text", parked.query_text, query_text)
    /\ retrieve_calls' = parked.retrieve_calls
    /\ retrieved_docs' =
          Resumed("retrieved_docs", parked.retrieved_docs, retrieved_docs)
    /\ assessment' = Resumed("assessment", parked.assessment, assessment)
    /\ llm_calls' = parked.llm_calls
    /\ env' = parked.env
    /\ outcome' = parked.outcome
    /\ error' = parked.error
    /\ response' = Resumed("response", parked.response, response)
    /\ is_relevant' = parked.is_relevant
    /\ http_status' = parked.http_status
    /\ UNCHANGED <<aside, system_prompt_template, query_engine>>

\* the questions of the concurrent callers
ConcurrentQuestions == {"", "What is the password policy?"}

\* the collaborators' behaviours the concurrent callers can meet
ConcurrentEnvironments ==
    { e \in NormalEnvironments :
        /\ e.docs \in {<<>>, << <<"passwords must be 12 characters">> >>}
        /\ e.judge_ok => e.judge_text \in {ENHANCE, NO_ENHANCEMENT}
        /\ e.primary_ok => e.primary_text = <<"Passwords must be 12 characters.">>
        /\ e.fallback_ok =>
              e.fallback_text = <<"I can answer from general knowledge.", "\n">> }

---------------------------------------------------------------------------
(* OpenAIService.update_api_key and POST /api/config *)

\* OPENAI_API_KEY of the configuration: "" when the environment gives none
ConfiguredKey == "sk-default"
DefaultKeys == {"", ConfiguredKey}

\* the keys a request can bring
RequestKeys == {"", "sk-new"}

\* the JSON objects a request to /api/config can hold
ConfigBodies ==
    [use_default : BOOLEAN, api_key : RequestKeys \cup {Missing}]

NoUpdate == [api_key |-> Missing, raised |-> FALSE]

\* an update that installs the new client before it has tested the key
update_api_key_AssignFirst(api_key, valid) ==
    [client |-> api_key, raised |-> ~valid]

\* update_api_key: the client the service holds afterwards, and whether the
\* call raised ValueError; valid is the answer of new_client.models.list()
update_api_key(api_key, valid) ==
    [client |-> IF valid THEN api_key ELSE client, raised |-> ~valid]

\* configure_api: what the route raises before any update, "" if nothing
ConfigRejection(body) ==
    IF body.use_default
    THEN IF default_api_key = "" THEN "NotFoundError" ELSE ""
    ELSE IF body.api_key \in {Missing, ""} THEN "BadRequestError" ELSE ""

\* configure_api: the key handed to update_api_key
ConfigKey(body) == IF body.use_default THEN default_api_key ELSE body.api_key

\* configure_api on a body that is no JSON object: data.get raises
\* AttributeError
ConfigureApiNoData ==
    /\ config_error' = "AttributeError"
    /\ config_status' = ErrorStatus("AttributeError")
    /\ UNCHANGED <<client, default_api_key, last_update, queryVars, rankingVars,
                   variantVars, loaderVars, storeVars>>

\* configure_api rejecting the request without an update
ConfigureApiReject(body) ==
    /\ ConfigRejection(body) # ""
    /\ config_error' = ConfigRejection(body)
    /\ config_status' = ErrorStatus(ConfigRejection(body))
    /\ UNCHANGED <<client, default_api_key, last_update, queryVars, rankingVars,
                   variantVars, loaderVars, storeVars>>

\* configure_api calling update_api_key
ConfigureApiUpdate(body, valid) ==
    /\ ConfigRejection(body) = ""
    /\ LET after == update_api_key(ConfigKey(body), valid)
       IN  /\ client' = after.client
           /\ last_update' = [api_key |-> ConfigKey(body), raised |-> after.raised]
           /\ config_error' = IF after.raised THEN "BadRequestError" ELSE ""
           /\ config_status' = IF after.raised THEN ErrorStatus("BadRequestError")
                                ELSE StatusOK
    /\ UNCHANGED <<default_api_key, queryVars, rankingVars, variantVars,
                   loaderVars, storeVars>>

\* the collaborators' behaviours a query() meets while keys are changed
KeyEnvironments ==
    { e \in ConcurrentEnvironments :
        /\ e.retrieve_ok => e.docs # <<>>
        /\ e.judge_ok => e.judge_text = ENHANCE }

\* the service as create_app built it, no request to /api/config made
KeysIdle ==
    /\ default_api_key = ConfiguredKey
    /\ client = default_api_key
    /\ last_update = NoUpdate
    /\ config_error = ""
    /\ config_status = 0

---------------------------------------------------------------------------
(* LLMDiscriminator._extract_ranking *)

\* most variants compared in the model (seven in the comparison engine)
MaxVariants == 2

\* str.lower() on one atom of a text
LowerChar(c) ==
    CASE c = "A" -> "a" [] c = "F" -> "f" [] c = "G" -> "g" [] c = "I" -> "i"
      [] c = "K" -> "k" [] c = "L" -> "l" [] c = "N" -> "n" [] c = "R" -> "r"
      [] c = "Response " -> "response "
      [] OTHER -> c

Lower(t) == [i \in 1..Len(t) |-> LowerChar(t[i])]

\* str.find: the first position of needle in hay from i on, 0 if none
RECURSIVE Find(_, _, _)
Find(needle, hay, i) ==
    IF i + Len(needle) - 1 > Len(hay) THEN 0
    ELSE IF SubSeq(hay, i, i + Len(needle) - 1) = needle THEN i
    ELSE Find(needle, hay, i + 1)

\* text.split(sep)[1] for a text that holds sep: what stands between the
\* first sep and the next one
SplitSecond(text, sep) ==
    LET rest == SubSeq(text, Find(sep, text, 1) + Len(sep), Len(text))
        next == Find(sep, rest, 1)
    IN  IF next = 0 THEN rest ELSE SubSeq(rest, 1, next - 1)

\* the three headings _extract_ranking looks for
FinalRankingUpper == <<"F","I","N","A","L"," ","R","A","N","K","I","N","G",":">>
FinalRankingLower == <<"f","i","n","a","l"," ","r","a","n","k","i","n","g",":">>
RankingHeading == <<"R","a","n","k","i","n","g",":">>

\* the heading the text is split at
SplitHeading(text) ==
    IF In(FinalRankingUpper, text) THEN FinalRankingUpper
    ELSE IF In(FinalRankingLower, Lower(text)) THEN FinalRankingLower
    ELSE IF In(RankingHeading, text) THEN RankingHeading
    ELSE <<>>

\* comparison.split(heading)[1] raises IndexError: the heading was found in
\* the lowered text only
SplitRaises(text) ==
    SplitHeading(text) # <<>> /\ ~In(SplitHeading(text), text)

\* ranking_section
RankingSection(text) ==
    IF SplitHeading(text) = <<>> THEN <<>>
    ELSE Strip(SplitSecond(text, SplitHeading(text)))

\* variant_names.index(variant) + 1
VariantIndex(names, variant) ==
    CHOOSE i \in 1..Len(names) :
        names[i] = variant /\ \A j \in 1..(i - 1) : names[j] # variant

\* response_patterns for the variant at index i
ResponsePatterns(i) ==
    { <<"Response ", ToString(i)>>, <<"response ", ToString(i)>>,
      <<"#", ToString(i)>>, <<"(", ToString(i), ")">>,
      <<"[", ToString(i), "]">> }

\* the variant is appended to ordered_variants
Mentioned(names, variant, section) ==
    \/ In(<<variant>>, section)
    \/ \E pattern \in ResponsePatterns(VariantIndex(names, variant)) :
          In(pattern, section)

\* ordered_variants after the loop over the first n names
RECURSIVE OrderedVariants(_, _, _)
OrderedVariants(names, section, n) ==
    IF n = 0 THEN <<>>
    ELSE IF Mentioned(names, names[n], section)
         THEN Append(OrderedVariants(names, section, n - 1), names[n])
         ELSE OrderedVariants(names, section, n - 1)

\* _extract_ranking, on a text whose split does not raise
extract_ranking(text, names) ==
    LET section == RankingSection(text)
        ordered == OrderedVariants(names, section, Len(names))
    IN  IF section # <<>> /\ Len(ordered) = Len(names) THEN ordered ELSE names

\* what the judge can write as its comparison
ComparisonTexts ==
    { <<"F","I","N","A","L"," ","R","A","N","K","I","N","G",":"," ","Response ","1"," ","(","#","1",")",","," ","Response ","2"," ","(","#","2",")">>,
      <<"F","I","N","A","L"," ","R","A","N","K","I","N","G",":"," ","Response ","2"," ","(","#","1",")",","," ","Response ","1"," ","(","#","2",")">>,
      <<"Both answer the question."," ","F","I","N","A","L"," ","R","A","N","K","I","N","G",":"," ","Hybrid Search + Contextual Compression",","," ","Baseline RAG">>,
      <<"f","i","n","a","l"," ","r","a","n","k","i","n","g",":"," ","response ","2",","," ","response ","1">>,
      <<"F","i","n","a","l"," ","R","a","n","k","i","n","g",":"," ","Response ","1",","," ","Response ","2">>,
      <<"R","a","n","k","i","n","g",":"," ","Response ","2">>,
      <<"Response ","2"," ","is the better answer.">>,
      <<"F","I","N","A","L"," ","R","A","N","K","I","N","G",":"," ">>,
      <<"F","I","N","A","L"," ","R","A","N","K","I","N","G",":"," ","[","2","]",","," ","[","1","]">>,
      <<"F","I","N","A","L"," ","R","A","N","K","I","N","G",":"," ","Response ","2"," ","(","#","1",")">>,
      <<>> }

\* get_name() of the variants
VariantNames ==
    { "Baseline RAG", "Hybrid Search + Contextual Compression",
      "Query Expansion + Reranking" }

\* list(responses.keys()): distinct names, in the order they were queried
VariantLists ==
    { names \in SeqsUpTo(VariantNames, MaxVariants) :
        \A i, j \in 1..Len(names) : names[i] = names[j] => i = j }

\* _extract_ranking returning
ExtractRankingReturn ==
    /\ ranking_state = "called"
    /\ ~SplitRaises(comparison)
    /\ ranking' = extract_ranking(comparison, variant_names)
    /\ ranking_state' = "returned"
    /\ UNCHANGED <<comparison, variant_names, queryVars, keyVars, variantVars,
                   loaderVars, storeVars>>

\* _extract_ranking left by the IndexError of split(...)[1]
ExtractRankingRaise ==
    /\ ranking_state = "called"
    /\ SplitRaises(comparison)
    /\ ranking_state' = "raised"
    /\ UNCHANGED <<comparison, variant_names, ranking, queryVars, keyVars,
                   variantVars, loaderVars, storeVars>>

\* no call of _extract_ranking
RankingIdle ==
    /\ comparison = <<>>
    /\ variant_names = <<>>
    /\ ranking = <<>>
    /\ ranking_state = "none"

---------------------------------------------------------------------------
(* RAGComparisonEngine.query_all_variants *)

\* what variant.query(question) can do: return a text, or raise
VariantOutcomes ==
    { [raised |-> FALSE, text |-> "Passwords must be 12 characters."],
      [raised |-> FALSE, text |-> ""],
      [raised |-> TRUE, text |-> "API request failed"] }

\* self.variants: at least the baseline, names distinct
ConfiguredVariants == { names \in VariantLists : names # <<>> }

\* a loop that a failing variant ends
AfterError_Break(i, total_variants) == total_variants

\* the except clause is inside the loop: the next variant follows
AfterError(i, total_variants) == i + 1

\* results[name] = value
SetItem(dict, name, value) ==
    [n \in DOMAIN dict \cup {name} |-> IF n = name THEN value ELSE dict[n]]

\* progress_callback(message, fraction), when a callback was given
Report(message, done, total) ==
    IF progress_callback THEN << <<message, done, total>> >> ELSE <<>>

\* one turn of the loop, variant.query returning
QueryVariantOk ==
    /\ variants_pc = "loop"
    /\ variant_i < Len(variants)
    /\ ~variant_env[variant_i + 1].raised
    /\ queried' = Append(queried, variants[variant_i + 1])
    /\ results' = SetItem(results, variants[variant_i + 1],
                          <<variant_env[variant_i + 1].text>>)
    /\ progress' = progress
                     \o Report("Generating response using", variant_i, Len(variants))
                     \o Report("Completed", variant_i + 1, Len(variants))
    /\ variant_i' = variant_i + 1
    /\ UNCHANGED <<variants, variant_env, progress_callback, variants_pc,
                   queryVars, keyVars, rankingVars, loaderVars, storeVars>>

\* one turn of the loop, variant.query raising
QueryVariantRaise ==
    /\ variants_pc = "loop"
    /\ variant_i < Len(variants)
    /\ variant_env[variant_i + 1].raised
    /\ queried' = Append(queried, variants[variant_i + 1])
    /\ results' = SetItem(results, variants[variant_i + 1],
                          <<"Error: ", variant_env[variant_i + 1].text>>)
    /\ progress' = progress
                     \o Report("Generating response using", variant_i, Len(variants))
    /\ variant_i' = AfterError(variant_i, Len(variants))
    /\ UNCHANGED <<variants, variant_env, progress_callback, variants_pc,
                   queryVars, keyVars, rankingVars, loaderVars, storeVars>>

\* the loop is over: return results
QueryAllReturn ==
    /\ variants_pc = "loop"
    /\ variant_i >= Len(variants)
    /\ progress' = progress \o Report("All variants completed", 1, 1)
    /\ variants_pc' = "returned"
    /\ UNCHANGED <<variants, variant_env, progress_callback, variant_i, queried,
                   results, queryVars, keyVars, rankingVars, loaderVars, storeVars>>

\* no call of query_all_variants
VariantsIdle ==
    /\ variants = <<>>
    /\ variant_env = <<>>
    /\ progress_callback = FALSE
    /\ variant_i = 0
    /\ queried = <<>>
    /\ progress = <<>>
    /\ results = <<>>
    /\ variants_pc = "none"

---------------------------------------------------------------------------
(* document_loader *)

\* most documents one file gives in the model
MaxPages == 2

\* Path(file_path).suffix of the paths tried
Suffixes == {".pdf", ".PDF", ".txt", ".docx", ""}

\* the paths: their suffix, and whether the file exists
FilePaths == [suffix : Suffixes, exists : BOOLEAN]

\* what PyPDFLoader / TextLoader do on an existing file
LoaderOutcomes == [raised : BOOLEAN, pages : 0..MaxPages]

\* suffix.lower()
LowerSuffix(suffix) == IF suffix = ".PDF" THEN ".pdf" ELSE suffix

\* DocumentLoaderFactory.get_loader: the loader's kind, "" when it raises
\* ValueError for an unsupported type
get_loader(path) ==
    CASE LowerSuffix(path.suffix) = ".pdf" -> "pdf"
      [] LowerSuffix(path.suffix) = ".txt" -> "text"
      [] OTHER -> ""

\* load(): except Exception as e: raise ValueError(...), whatever e is
LoadHandler(exception) == "ValueError"

\* PDFDocumentLoader.load / TextDocumentLoader.load: the exception class that
\* leaves the call, "" when it returns
load(path, behaviour) ==
    IF ~path.exists THEN LoadHandler("FileNotFoundError")
    ELSE IF behaviour.raised THEN LoadHandler("Exception")
    ELSE ""

\* load_document: FileNotFoundError and ValueError pass as they are, anything
\* else becomes ValueError
load_document(path, behaviour) ==
    IF get_loader(path) = "" THEN "ValueError"
    ELSE IF load(path, behaviour) \in {"", "FileNotFoundError", "ValueError"}
         THEN load(path, behaviour)
         ELSE "ValueError"

\* what the call in progress ends with
LoadResult ==
    IF load_entry = "load_document" THEN load_document(file_path, loader_env)
    ELSE load(file_path, loader_env)

\* a loader's load(), or load_document, returning the documents
LoadReturn ==
    /\ load_pc = "called"
    /\ LoadResult = ""
    /\ loaded_documents' = loader_env.pages
    /\ load_pc' = "returned"
    /\ UNCHANGED <<file_path, loader_env, load_entry, load_error, queryVars,
                   keyVars, rankingVars, variantVars, storeVars>>

\* a loader's load(), or load_document, raising
LoadRaise ==
    /\ load_pc = "called"
    /\ LoadResult # ""
    /\ load_error' = LoadResult
    /\ load_pc' = "raised"
    /\ UNCHANGED <<file_path, loader_env, load_entry, loaded_documents, queryVars,
                   keyVars, rankingVars, variantVars, storeVars>>

\* no call of a loader
LoaderIdle ==
    /\ file_path = [suffix |-> "", exists |-> FALSE]
    /\ loader_env = [raised |-> FALSE, pages |-> 0]
    /\ load_entry = "none"
    /\ load_pc = "none"
    /\ load_error = ""
    /\ loaded_documents = 0

---------------------------------------------------------------------------
(* vector_store: FAISSVectorStoreManager *)

\* most calls made on one manager in the model
MaxStoreCalls == 5

\* self.vector_store = None
Unset == 0

\* the operations of the manager
StoreOperations == {"create_vector_store", "save", "load", "similarity_search"}

\* no operation called yet
NoOperation == [op |-> "none", error |-> ""]

\* a create_vector_store that assigns before it can fail
create_vector_store_AssignFirst(store, fresh, raised) ==
    [vector_store |-> fresh,
     error |-> IF raised THEN "ValueError" ELSE ""]

\* create_vector_store: FAISS.from_documents builds the store `fresh`, or
\* raises, and the assignment is not reached
create_vector_store(store, fresh, raised) ==
    [vector_store |-> IF raised THEN store ELSE fresh,
     error |-> IF raised THEN "ValueError" ELSE ""]

\* save: the unset test is inside the try, whose handler raises ValueError
save(store, raised) ==
    [vector_store |-> store,
     error |-> IF store = Unset \/ raised THEN "ValueError" ELSE ""]

\* load: a missing path is FileNotFoundError, a failing FAISS.load_local is
\* ValueError, otherwise the loaded store `fresh` is assigned
store_load(store, fresh, exists, raised) ==
    [vector_store |-> IF exists /\ ~raised THEN fresh ELSE store,
     error |-> IF ~exists THEN "FileNotFoundError"
               ELSE IF raised THEN "ValueError" ELSE ""]

\* similarity_search: the unset test is inside the try, whose handler raises
\* ValueError
similarity_search(store, raised) ==
    [vector_store |-> store,
     error |-> IF store = Unset \/ raised THEN "ValueError" ELSE ""]

\* create_vector_store is called and ends
CreateVectorStore ==
    \E raised \in BOOLEAN :
        /\ store_calls < MaxStoreCalls
        /\ store_calls' = store_calls + 1
        /\ store_before' = vector_store
        /\ vector_store' =
              create_vector_store(vector_store, store_calls + 1,
                                  raised).vector_store
        /\ store_op' =
              [op |-> "create_vector_store",
               error |-> create_vector_store(vector_store, store_calls + 1,
                                             raised).error]
        /\ UNCHANGED <<queryVars, keyVars, rankingVars, variantVars,
                       loaderVars>>

\* save is called and ends
Save ==
    \E raised \in BOOLEAN :
        /\ store_calls < MaxStoreCalls
        /\ store_calls' = store_calls + 1
        /\ store_before' = vector_store
        /\ vector_store' = save(vector_store, raised).vector_store
        /\ store_op' = [op |-> "save",
                        error |-> save(vector_store, raised).error]
        /\ UNCHANGED <<queryVars, keyVars, rankingVars, variantVars,
                       loaderVars>>

\* load is called and ends
Load ==
    \E exists \in BOOLEAN, raised \in BOOLEAN :
        /\ store_calls < MaxStoreCalls
        /\ store_calls' = store_calls + 1
        /\ store_before' = vector_store
        /\ vector_store' =
              store_load(vector_store, store_calls + 1, exists,
                         raised).vector_store
        /\ store_op' =
              [op |-> "load",
               error |-> store_load(vector_store, store_calls + 1, exists,
                                    raised).error]
        /\ UNCHANGED <<queryVars, keyVars, rankingVars, variantVars,
                       loaderVars>>

\* similarity_search is called and ends
SimilaritySearch ==
    \E raised \in BOOLEAN :
        /\ store_calls < MaxStoreCalls
        /\ store_calls' = store_calls + 1
        /\ store_before' = vector_store
        /\ vector_store' = similarity_search(vector_store, raised).vector_store
        /\ store_op' = [op |-> "similarity_search",
                        error |-> similarity_search(vector_store, raised).error]
        /\ UNCHANGED <<queryVars, keyVars, rankingVars, variantVars,
                       loaderVars>>

\* a manager just constructed
StoreIdle ==
    /\ vector_store = Unset
    /\ store_before = Unset
    /\ store_op = NoOperation
    /\ store_calls = 0

---------------------------------------------------------------------------
(* The state machine *)

\* the call is over: its locals are dropped, the engine's fields stay
Return ==
    /\ \/ pc = "done" /\ entry = "direct"
       \/ pc = "responded"
       \/ pc = "checked"
    /\ pc' = "idle"
    /\ entry' = "none"
    /\ query_text' = ""
    /\ retrieve_calls' = <<>>
    /\ retrieved_docs' = <<>>
    /\ assessment' = <<>>
    /\ llm_calls' = <<>>
    /\ env' = NoEnvironment
    /\ outcome' = "none"
    /\ error' = ""
    /\ response' = <<>>
    /\ is_relevant' = FALSE
    /\ http_status' = 0
    /\ UNCHANGED <<aside, parked, system_prompt_template, query_engine>>

Init ==
    /\ system_prompt_template \in Templates
    /\ query_engine \in BOOLEAN
    /\ pc = "idle"
    /\ entry = "none"
    /\ query_text = ""
    /\ retrieve_calls = <<>>
    /\ retrieved_docs = <<>>
    /\ assessment = <<>>
    /\ llm_calls = <<>>
    /\ env = NoEnvironment
    /\ outcome = "none"
    /\ error = ""
    /\ response = <<>>
    /\ is_relevant = FALSE
    /\ http_status = 0
    /\ parked = IdleFrame
    /\ KeysIdle
    /\ RankingIdle
    /\ VariantsIdle
    /\ LoaderIdle
    /\ StoreIdle

Next ==
    \/ \E q \in Questions, e \in NormalEnvironments : CallQuery(q, e)
    \/ RetrieveOk
    \/ RetrieveRaise
    \/ AssessEmpty
    \/ AssessOk
    \/ AssessRaise
    \/ GenerateOk
    \/ GenerateRaise
    \/ FallbackOk
    \/ FallbackRaise
    \/ \E q \in Questions, docs \in DocumentLists, text \in JudgeTexts :
          CheckRelevance(q, docs, TRUE, text)
    \/ \E q \in Questions, docs \in DocumentLists :
          CheckRelevance(q, docs, FALSE, <<>>)
    \/ \E req \in RequestQueries : ProcessQueryNoQuery(req)
    \/ \E req \in RequestQueries : ProcessQueryNoEngine(req)
    \/ \E req \in RequestQueries, e \in NormalEnvironments :
          ProcessQueryCall(req, e)
    \/ ProcessQueryRespond
    \/ Return

Spec == Init /\ [][Next]_vars

\* two callers of query() on one configured engine, their steps interleaved
InitConcurrent ==
    /\ Init
    /\ query_engine
    /\ system_prompt_template = ConfigTemplate

NextConcurrent ==
    \/ \E q \in ConcurrentQuestions, e \in ConcurrentEnvironments :
          CallQuery(q, e)
    \/ RetrieveOk
    \/ RetrieveRaise
    \/ AssessEmpty
    \/ AssessOk
    \/ AssessRaise
    \/ GenerateOk
    \/ GenerateRaise
    \/ FallbackOk
    \/ FallbackRaise
    \/ Return
    \/ SwitchThread

SpecConcurrent == InitConcurrent /\ [][NextConcurrent]_vars

\* one caller of query() on a configured engine
QueryIdle ==
    /\ system_prompt_template = ConfigTemplate
    /\ query_engine = TRUE
    /\ pc = "idle"
    /\ entry = "none"
    /\ query_text = ""
    /\ retrieve_calls = <<>>
    /\ retrieved_docs = <<>>
    /\ assessment = <<>>
    /\ llm_calls = <<>>
    /\ env = NoEnvironment
    /\ outcome = "none"
    /\ error = ""
    /\ response = <<>>
    /\ is_relevant = FALSE
    /\ http_status = 0
    /\ parked = IdleFrame

\* requests to /api/config served while a query() runs
InitKeys ==
    /\ QueryIdle
    /\ default_api_key \in DefaultKeys
    /\ client = default_api_key
    /\ last_update = NoUpdate
    /\ config_error = ""
    /\ config_status = 0
    /\ RankingIdle
    /\ VariantsIdle
    /\ LoaderIdle
    /\ StoreIdle

NextKeys ==
    \/ \E e \in KeyEnvironments : CallQuery("What is the password policy?", e)
    \/ RetrieveOk
    \/ RetrieveRaise
    \/ AssessOk
    \/ AssessRaise
    \/ GenerateOk
    \/ GenerateRaise
    \/ FallbackOk
    \/ FallbackRaise
    \/ Return
    \/ ConfigureApiNoData
    \/ \E body \in ConfigBodies : ConfigureApiReject(body)
    \/ \E body \in ConfigBodies, valid \in BOOLEAN :
          ConfigureApiUpdate(body, valid)

SpecKeys == InitKeys /\ [][NextKeys]_vars

\* _extract_ranking applied to a comparison text and a list of variants
InitRanking ==
    /\ QueryIdle
    /\ KeysIdle
    /\ comparison \in ComparisonTexts
    /\ variant_names \in VariantLists
    /\ ranking = <<>>
    /\ ranking_state = "called"
    /\ VariantsIdle
    /\ LoaderIdle
    /\ StoreIdle

NextRanking ==
    \/ ExtractRankingReturn
    \/ ExtractRankingRaise

SpecRanking == InitRanking /\ [][NextRanking]_vars

\* query_all_variants called on an engine, each variant answering or failing
InitVariants ==
    /\ QueryIdle
    /\ KeysIdle
    /\ RankingIdle
    /\ variants \in ConfiguredVariants
    /\ variant_env \in [1..Len(variants) -> VariantOutcomes]
    /\ progress_callback \in BOOLEAN
    /\ variant_i = 0
    /\ queried = <<>>
    /\ progress = <<>>
    /\ results = <<>>
    /\ variants_pc = "loop"
    /\ LoaderIdle
    /\ StoreIdle

NextVariants ==
    \/ QueryVariantOk
    \/ QueryVariantRaise
    \/ QueryAllReturn

SpecVariants == InitVariants /\ [][NextVariants]_vars

\* one call of a loader's load() or of load_document on a path
InitLoader ==
    /\ QueryIdle
    /\ KeysIdle
    /\ RankingIdle
    /\ VariantsIdle
    /\ file_path \in FilePaths
    /\ loader_env \in LoaderOutcomes
    /\ load_entry \in {"pdf", "text", "load_document"}
    /\ load_pc = "called"
    /\ load_error = ""
    /\ loaded_documents = 0
    /\ StoreIdle

NextLoader ==
    \/ LoadReturn
    \/ LoadRaise

SpecLoader == InitLoader /\ [][NextLoader]_vars

\* calls on one FAISSVectorStoreManager
InitStore ==
    /\ QueryIdle
    /\ KeysIdle
    /\ RankingIdle
    /\ VariantsIdle
    /\ LoaderIdle
    /\ StoreIdle

NextStore ==
    \/ CreateVectorStore
    \/ Save
    \/ Load
    \/ SimilaritySearch

SpecStore == InitStore /\ [][NextStore]_vars

---------------------------------------------------------------------------
(* Vocabulary of the properties *)

\* the positions in llm_calls of the calls made at a site
CallsAt(site) == { i \in DOMAIN llm_calls : llm_calls[i].site = site }

\* a generate_text call made at the site raised
RaisedAt(site) == \E i \in CallsAt(site) : llm_calls[i].raised

\* retrieve was called and returned / raised
RetrievalReturned == retrieve_calls # <<>> /\ ~retrieve_calls[1].raised
RetrievalRaised == retrieve_calls # <<>> /\ retrieve_calls[1].raised

\* query() is over
QueryOver == pc \in {"done", "responded"} /\ outcome # "none"

\* the primary generation call was made with the sentinel in the context slot
PrimaryWithSentinel ==
    \E i \in CallsAt("primary") :
        llm_calls[i].system_prompt =
            Format(system_prompt_template, SentinelContext, query_text)

\* empty and whitespace-only questions
BlankQuestions == {"", "   "}

\* needle occurs in hay, position by position
Occurs(needle, hay) ==
    \E i \in 1..Len(hay) :
        /\ i + Len(needle) - 1 <= Len(hay)
        /\ \A j \in 1..Len(needle) : hay[i + j - 1] = needle[j]

---------------------------------------------------------------------------
(* Properties *)

\* C1: when retrieval returned an empty passage list, whatever the question,
\* assess_document_relevance returns (False, []) and no judge call is ever
\* made to the language model.
C1_EmptyRetrievalNoJudgeCall ==
    (RetrievalReturned /\ retrieved_docs = <<>>) =>
        /\ CallsAt("assess") = {}
        /\ pc # "assess" => assessment = <<FALSE, <<>>>>

C1_Witness ==
    /\ pc = "generate"
    /\ RetrievalReturned
    /\ retrieved_docs = <<>>
    /\ assessment = <<FALSE, <<>>>>
    /\ llm_calls = <<>>

\* C2: when the judge call of the relevance gate raised, the gate has returned
\* should_enhance = false (assess_document_relevance) or False
\* (check_relevance), and the error did not leave the gate.
C2_GateFailsClosed ==
    /\ RaisedAt("assess") => (assessment # <<>> /\ assessment[1] = FALSE)
    /\ RaisedAt("check") => (pc = "checked" /\ is_relevant = FALSE)

\* C3: when the judge call raised, query() still makes the primary generation
\* call, with the sentinel context in the context slot of the template.
C3_GateFailureStillPrimary ==
    (RaisedAt("assess") /\ QueryOver) => PrimaryWithSentinel

\* C4: when the judge call raised and every later language model call
\* succeeds, no exception leaves query(): it returns a text.
C4_GateFailureStillAnswers ==
    (RaisedAt("assess") /\ env.primary_ok /\ env.fallback_ok) =>
        /\ pc \in {"fallback", "done", "responded"}
        /\ outcome # "raised"
        /\ error = ""
        /\ pc # "fallback" => (outcome = "returned" /\ response \in AnswerTexts)

C4_Witness ==
    /\ RaisedAt("assess")
    /\ env.primary_ok
    /\ env.fallback_ok
    /\ pc = "done"
    /\ outcome = "returned"
    /\ response \in AnswerTexts

\* C5: a call of query() with an empty or whitespace-only question makes no
\* call to the retriever or to the language model, and ends with an error.
C5_BlankQuestionRejected ==
    (entry \in {"route", "direct"} /\ query_text \in BlankQuestions) =>
        /\ retrieve_calls = <<>>
        /\ llm_calls = <<>>
        /\ outcome # "returned"

\* C6, as stated: when retrieve raised, query() makes no judge call, makes the
\* primary generation call with the sentinel context, and the retrieval error
\* does not reach the caller.
C6_RetrievalFailureLikeEmpty ==
    (RetrievalRaised /\ QueryOver) =>
        /\ CallsAt("assess") = {}
        /\ PrimaryWithSentinel
        /\ error # RetrievalError

\* C6, amended: when retrieve raised, query() makes no judge call and no
\* primary generation call; its only language model call is the fallback
\* call (generic system prompt, the raw question), whose text it returns; the
\* retrieval error does not reach the caller.
C6_RetrievalFailureFallsBack ==
    RetrievalRaised =>
        /\ pc \in {"fallback", "done", "responded"}
        /\ assessment = <<>>
        /\ CallsAt("assess") = {}
        /\ CallsAt("primary") = {}
        /\ error # RetrievalError
        /\ pc # "fallback" =>
              /\ Len(llm_calls) = 1
              /\ llm_calls[1].site = "fallback"
              /\ llm_calls[1].system_prompt = FallbackSystemPrompt
              /\ llm_calls[1].user_prompt = <<query_text>>
              /\ env.fallback_ok =>
                    (outcome = "returned" /\ response = env.fallback_text)
              /\ ~env.fallback_ok =>
                    (outcome = "raised" /\ error = GenerationError)

C6_Witness ==
    /\ RetrievalRaised
    /\ pc = "done"
    /\ outcome = "returned"
    /\ response = env.fallback_text
    /\ CallsAt("fallback") # {}

\* C7, as stated: an error leaves query() only when the primary generation call
\* and the fallback generation call were both made and both raised.
C7_ErrorOnlyAfterBothGenerationsFailed ==
    outcome = "raised" => (RaisedAt("primary") /\ RaisedAt("fallback"))

\* C7, amended: an error leaves query() only when the fallback generation call
\* was made and raised (after the retrieval, the judge call or the primary
\* generation call raised); every other finished call returned a text.
C7_ErrorOnlyAfterFallbackFailed ==
    /\ outcome = "raised" =>
          /\ RaisedAt("fallback")
          /\ error = GenerationError
          /\ RetrievalRaised \/ RaisedAt("assess") \/ RaisedAt("primary")
    /\ (QueryOver /\ ~RaisedAt("fallback")) =>
          (outcome = "returned" /\ response \in AnswerTexts)

C7_Witness ==
    /\ pc = "done"
    /\ outcome = "raised"
    /\ RaisedAt("fallback")
    /\ CallsAt("primary") = {}

\* C8: when the primary generation call raised and the language model answers
\* the fallback call, query() returns exactly the text of the fallback call.
C8_FallbackTextReturned ==
    (RaisedAt("primary") /\ env.fallback_ok) =>
        /\ pc \in {"fallback", "done", "responded"}
        /\ pc # "fallback" =>
              /\ outcome = "returned"
              /\ response = env.fallback_text
              /\ \E i \in CallsAt("fallback") :
                    ~llm_calls[i].raised /\ llm_calls[i].text = response

C8_Witness ==
    /\ RaisedAt("primary")
    /\ env.fallback_ok
    /\ pc = "done"
    /\ outcome = "returned"
    /\ response = env.fallback_text

\* C9: when the primary generation call and the fallback call both raised,
\* query() raises the generation error and returns no text.
C9_BothGenerationsFail ==
    /\ (RaisedAt("primary") /\ RaisedAt("fallback")) =>
          /\ pc \in {"done", "responded"}
          /\ outcome = "raised"
          /\ error = GenerationError
          /\ response = <<>>
    /\ (RaisedAt("primary") /\ ~env.fallback_ok) =>
          pc \in {"fallback", "done", "responded"}

C9_Witness ==
    /\ RaisedAt("primary")
    /\ RaisedAt("fallback")
    /\ pc = "done"
    /\ outcome = "raised"

\* C10: the verdict read from a judge text is true exactly when the text,
\* upper-cased, holds the positive token (ENHANCE, RELEVANT) and does not hold
\* the negative token (NO_ENHANCEMENT, NOT_RELEVANT); a text that is the
\* negative token alone reads as false.
C10_VerdictParsing ==
    /\ (assessment # <<>> /\ CallsAt("assess") # {}) =>
          LET t == Upper(llm_calls[CHOOSE i \in CallsAt("assess") : TRUE].text)
          IN  /\ assessment[1] <=> (Occurs(ENHANCE, t) /\ ~Occurs(NO_ENHANCEMENT, t))
              /\ t = NO_ENHANCEMENT => assessment[1] = FALSE
              /\ t = ENHANCE => assessment[1] = TRUE
    /\ (pc = "checked" /\ ~RaisedAt("check")) =>
          LET t == Upper(llm_calls[CHOOSE i \in CallsAt("check") : TRUE].text)
          IN  /\ is_relevant <=> (Occurs(RELEVANT, t) /\ ~Occurs(NOT_RELEVANT, t))
              /\ t = NOT_RELEVANT => is_relevant = FALSE
              /\ t = RELEVANT => is_relevant = TRUE

C10_Witness ==
    /\ pc = "generate"
    /\ CallsAt("assess") # {}
    /\ llm_calls[1].text = <<"n","o","_","e","n","h","a","n","c","e","m","e","n","t">>
    /\ assessment # <<>>
    /\ assessment[1] = FALSE

---------------------------------------------------------------------------
(* Vocabulary of the properties, continued *)

\* the elements of a sequence
Range(t) == { t[i] : i \in DOMAIN t }

\* the words of the stored passages
PassageWords == (UNION { Range(p) : p \in PassageTexts }) \ Whitespace

\* the fixed text of the prompt templates
TemplateWords == UNION { Range(t) : t \in Templates }

\* what fills the context slot of a formatted template: both templates are
\* one block of text, the context slot, a separator, the question slot and
\* a closing block
FilledContext(prompt) == SubSeq(prompt, 2, Len(prompt) - 3)

\* the length of the i-th extract of a formatted list: label, number, colon
\* and the stripped passage
ExtractLen(docs, i) == 3 + Len(Strip(docs[i]))

\* where the i-th extract starts in the formatted list: after the extracts
\* before it and one separator for each
RECURSIVE ExtractStart(_, _)
ExtractStart(docs, i) ==
    IF i = 1 THEN 1
    ELSE ExtractStart(docs, i - 1) + ExtractLen(docs, i - 1) + 1

\* one step of query()
QueryStep ==
    \/ RetrieveOk \/ RetrieveRaise
    \/ AssessEmpty \/ AssessOk \/ AssessRaise
    \/ GenerateOk \/ GenerateRaise
    \/ FallbackOk \/ FallbackRaise

\* what query() has done so far: calls made, verdict obtained, result delivered
Work ==
    Len(retrieve_calls) + Len(llm_calls)
      + (IF assessment # <<>> THEN 1 ELSE 0)
      + (IF outcome # "none" THEN 1 ELSE 0)

---------------------------------------------------------------------------
(* Properties, continued *)

\* C11: once the gate has run on a non-empty passage list, exactly one judge
\* call has been made, whether it answered or raised; it is the call of
\* assess_document_relevance, and query() never makes check_relevance's call.
C11_OneJudgeCall ==
    /\ entry \in {"route", "direct"} => CallsAt("check") = {}
    /\ (RetrievalReturned /\ retrieved_docs # <<>> /\ pc # "assess") =>
          /\ Cardinality(CallsAt("assess")) = 1
          /\ \A i \in CallsAt("assess") :
                /\ llm_calls[i].user_prompt = AssessUserPrompt
                /\ llm_calls[i].system_prompt =
                      AnalysisPrompt(query_text, format_documents(retrieved_docs))

C11_Witness ==
    /\ pc = "done"
    /\ RetrievalReturned
    /\ retrieved_docs # <<>>
    /\ RaisedAt("assess")
    /\ Cardinality(CallsAt("assess")) = 1

\* C12: whenever the verdict is not-enhance, the system prompt of the primary
\* generation call is the template filled with the sentinel context, and holds
\* no word of the retrieved passages.
C12_NotEnhanceUsesSentinel ==
    \A i \in CallsAt("primary") :
        (assessment # <<>> /\ assessment[1] = FALSE) =>
            /\ llm_calls[i].system_prompt =
                  Format(system_prompt_template, SentinelContext, query_text)
            /\ FilledContext(llm_calls[i].system_prompt) = SentinelContext
            /\ Range(llm_calls[i].system_prompt) \cap PassageWords = {}

C12_Witness ==
    /\ CallsAt("primary") # {}
    /\ retrieved_docs # <<>>
    /\ CallsAt("assess") # {}
    /\ llm_calls[1].text = NO_ENHANCEMENT
    /\ assessment = <<FALSE, retrieved_docs>>

\* format_documents of a non-empty list is never empty, also when a passage
\* is whitespace only
FormatNeverEmpty ==
    \A d \in DocumentLists \cup { << <<" ">> >>, << <<>> >> } :
        d # <<>> => Len(format_documents(d)) >= 3

\* C13: the context slot of the primary generation call is never empty: it
\* holds the sentinel, or the formatting of a non-empty passage list.
C13_ContextNeverEmpty ==
    /\ FormatNeverEmpty
    /\ \A i \in CallsAt("primary") :
          LET c == FilledContext(llm_calls[i].system_prompt)
          IN  /\ c # <<>>
              /\ \/ c = SentinelContext
                 \/ /\ retrieved_docs # <<>>
                    /\ c = format_documents(retrieved_docs)
                    /\ c[1] = "Extract "

C13_Witness ==
    /\ CallsAt("primary") # {}
    /\ retrieved_docs = <<>>
    /\ FilledContext(llm_calls[1].system_prompt) = SentinelContext

\* C14: when the verdict is enhance, the context of the primary generation
\* call lists all retrieved passages in retrieval order: extract i starts with
\* the label "Extract i:", holds passage i (stripped), and is followed by one
\* blank line when another extract follows; nothing else is in the context.
C14_ContextListsAllPassages ==
    \A c \in CallsAt("primary") :
        (assessment # <<>> /\ assessment[1] = TRUE) =>
            LET ctx == FilledContext(llm_calls[c].system_prompt)
                n == Len(retrieved_docs)
            IN  /\ n >= 1
                /\ assessment[2] = retrieved_docs
                /\ Len(ctx) = ExtractStart(retrieved_docs, n)
                                + ExtractLen(retrieved_docs, n) - 1
                /\ \A i \in 1..n :
                      LET at == ExtractStart(retrieved_docs, i)
                          len == ExtractLen(retrieved_docs, i)
                      IN  /\ ctx[at] = "Extract "
                          /\ ctx[at + 1] = ToString(i)
                          /\ ctx[at + 2] = ":\n"
                          /\ SubSeq(ctx, at + 3, at + len - 1) = Strip(retrieved_docs[i])
                          /\ i < n => ctx[at + len] = "\n\n"

C14_Witness ==
    /\ CallsAt("primary") # {}
    /\ assessment # <<>>
    /\ assessment[1] = TRUE
    /\ Len(retrieved_docs) = 2
    /\ retrieved_docs[1] # retrieved_docs[2]

\* C15: when the primary generation call answered, query() is over and has
\* returned exactly the text the language model produced for that call.
C15_PrimaryTextReturned ==
    \A i \in CallsAt("primary") :
        ~llm_calls[i].raised =>
            /\ pc \in {"done", "responded"}
            /\ outcome = "returned"
            /\ response = llm_calls[i].text
            /\ response = env.primary_text
            /\ CallsAt("fallback") = {}

C15_Witness ==
    /\ pc = "done"
    /\ outcome = "returned"
    /\ CallsAt("primary") # {}
    /\ assessment # <<>>
    /\ assessment[1] = TRUE
    /\ response = env.primary_text
    /\ response[Len(response)] = "\n"

\* C16: the judge call is made only after retrieve returned, and the primary
\* generation call only after the verdict is there; in the order of the
\* language model calls the judge call comes before the primary call.
C16_RetrieveGatePrimaryOrder ==
    /\ CallsAt("assess") # {} => (RetrievalReturned /\ retrieved_docs # <<>>)
    /\ assessment # <<>> => RetrievalReturned
    /\ CallsAt("primary") # {} => (RetrievalReturned /\ assessment # <<>>)
    /\ \A i \in CallsAt("assess"), j \in CallsAt("primary") : i < j
    /\ pc = "retrieve" => (llm_calls = <<>> /\ assessment = <<>>)
    /\ pc = "assess" => CallsAt("primary") = {}

C16_Witness ==
    /\ Len(llm_calls) = 2
    /\ llm_calls[1].site = "assess"
    /\ llm_calls[2].site = "primary"
    /\ RetrievalReturned

\* C17: a call of query() makes at most one retrieve call and at most three
\* language model calls, the fallback call at most once; when the fallback
\* call raised, query() is over with that error; and query() ends: while it
\* runs a step is possible, and every step adds to the work done, which is
\* bounded.
C17_QueryTerminates ==
    /\ [](/\ Len(retrieve_calls) <= 1
          /\ Len(llm_calls) <= 3
          /\ Cardinality(CallsAt("fallback")) <= 1
          /\ RaisedAt("fallback") =>
                (pc \in {"done", "responded"} /\ outcome = "raised")
          /\ Work <= 6
          /\ pc = "retrieve" => ENABLED (RetrieveOk \/ RetrieveRaise)
          /\ pc = "assess" => ENABLED (AssessEmpty \/ AssessOk \/ AssessRaise)
          /\ pc = "generate" => ENABLED (GenerateOk \/ GenerateRaise)
          /\ pc = "fallback" => ENABLED (FallbackOk \/ FallbackRaise))
    /\ [][QueryStep => Work' > Work]_vars

C17_Witness ==
    /\ pc = "done"
    /\ Len(retrieve_calls) = 1
    /\ Len(llm_calls) = 3
    /\ RaisedAt("fallback")
    /\ outcome = "raised"

\* C18: the fallback call has the generic helpful-assistant text as system
\* prompt and the raw question as user prompt; no passage word, no sentinel
\* and no template text is in it.
C18_FallbackPromptIsGeneric ==
    \A i \in CallsAt("fallback") :
        /\ llm_calls[i].system_prompt = FallbackSystemPrompt
        /\ llm_calls[i].user_prompt = <<query_text>>
        /\ Range(llm_calls[i].system_prompt)
              \cap (PassageWords \cup Range(SentinelContext) \cup TemplateWords) = {}

C18_Witness ==
    /\ CallsAt("fallback") # {}
    /\ RaisedAt("primary")
    /\ retrieved_docs # <<>>
    /\ assessment # <<>>
    /\ assessment[1] = TRUE


\* C20: the response of process_query has a client-error status (4xx) when the
\* question was rejected as empty, and a server-error status (5xx) when query()
\* raised after both the primary and the fallback generation call failed.
C20_GenerationFailureIsServerError ==
    (pc = "responded" /\ entry = "route") =>
        /\ NoQuery(query_text) => http_status \in 400..499
        /\ (outcome = "raised" /\ RaisedAt("primary") /\ RaisedAt("fallback")) =>
              http_status \in 500..599


---------------------------------------------------------------------------
(* query() run alone, in closed form *)

\* the frames of the two callers
Frames == {Frame, parked}

\* run alone against e, query() makes the judge call
AloneJudges(e) == e.retrieve_ok /\ e.docs # <<>>

\* run alone against e, query() makes the primary generation call
AlonePrimary(e) == e.retrieve_ok /\ (e.docs = <<>> \/ e.judge_ok)

\* run alone against e, query() makes the fallback call
AloneFallback(e) == ~AlonePrimary(e) \/ ~e.primary_ok

\* the language model calls query(q) makes when run alone against e
AloneCalls(tpl, q, e) ==
    (IF AloneJudges(e)
     THEN << generate_text("assess",
                           AnalysisPrompt(q, format_documents(e.docs)),
                           AssessUserPrompt, AssessTemperature, AssessMaxTokens,
                           e.judge_ok, e.judge_text) >>
     ELSE <<>>)
    \o (IF AlonePrimary(e)
        THEN << generate_text("primary",
                              Format(tpl,
                                     Context(e.docs # <<>> /\ Enhance(e.judge_text),
                                             e.docs),
                                     q),
                              <<q>>, PrimaryTemperature, 0,
                              e.primary_ok, e.primary_text) >>
        ELSE <<>>)
    \o (IF AloneFallback(e)
        THEN << generate_text("fallback", FallbackSystemPrompt, <<q>>, 0, 0,
                              e.fallback_ok, e.fallback_text) >>
        ELSE <<>>)

\* how query() ends when run alone against e: outcome, response, error
AloneResult(e) ==
    IF ~AloneFallback(e) THEN <<"returned", e.primary_text, "">>
    ELSE IF e.fallback_ok THEN <<"returned", e.fallback_text, "">>
    ELSE <<"raised", <<>>, GenerationError>>

\* C19: query() keeps nothing between or across calls. No step changes the
\* engine's fields; a caller not in a call holds nothing of an earlier call;
\* and whatever the interleaving of two callers, a finished call has made one
\* retrieve call for its own question, the language model calls it makes
\* when run alone, and has ended as it does when run alone against the same
\* answers of the collaborators.
C19_CallsAreIndependent ==
    /\ [](\A f \in Frames :
            /\ f.pc = "idle" => f = IdleFrame
            /\ f.pc = "done" =>
                  /\ f.retrieve_calls =
                        << [query |-> f.query_text, k |-> K,
                            raised |-> ~f.env.retrieve_ok] >>
                  /\ f.llm_calls =
                        AloneCalls(system_prompt_template, f.query_text, f.env)
                  /\ <<f.outcome, f.response, f.error>> = AloneResult(f.env))
    /\ [][/\ system_prompt_template' = system_prompt_template
           /\ query_engine' = query_engine]_vars

C19_Witness ==
    /\ pc = "done"
    /\ outcome = "returned"
    /\ parked.pc = "generate"
    /\ query_text # ""
    /\ parked.query_text = query_text
    /\ retrieved_docs # <<>>
    /\ parked.retrieved_docs = <<>>
    /\ Len(retrieve_calls) = 1
    /\ Len(parked.retrieve_calls) = 1
    /\ response # <<>>


---------------------------------------------------------------------------
(* Properties of the route and of the judge prompts *)

C22_JudgePromptsHoldPassages ==
    \A i \in CallsAt("assess") \cup CallsAt("check") :
        retrieved_docs # <<>> =>
            /\ In(<<query_text>>, llm_calls[i].system_prompt)
            /\ In(format_documents(retrieved_docs), llm_calls[i].system_prompt)


---------------------------------------------------------------------------
(* Properties of the key update and of the decorated routes *)

\* C23: update_api_key installs the new client only when the key passed
\* validation; when validation fails it raises, the route answers 400 and
\* the client stays the one in use; a request rejected before the update
\* leaves the client alone too; and every generate_text call goes through
\* the client the service holds at that moment.
C23_FailedUpdateKeepsClient ==
    /\ [][\A body \in ConfigBodies, valid \in BOOLEAN :
            ConfigureApiUpdate(body, valid) =>
                /\ last_update'.raised = ~valid
                /\ valid => client' = ConfigKey(body)
                /\ ~valid => /\ client' = client
                             /\ config_status' = StatusBadRequest]_vars
    /\ [][(ConfigureApiNoData \/ \E body \in ConfigBodies : ConfigureApiReject(body))
            => client' = client]_vars
    /\ [][Len(llm_calls') > Len(llm_calls) =>
            llm_calls'[Len(llm_calls')].client = client]_vars

C23_Witness ==
    /\ last_update.raised
    /\ last_update.api_key = "sk-new"
    /\ client = ConfiguredKey
    /\ config_status = StatusBadRequest
    /\ llm_calls # <<>>
    /\ llm_calls[Len(llm_calls)].client = ConfiguredKey

\* C24: all language model calls of one query() go through the same client,
\* also when /api/config is served while the query runs.
C24_OneClientPerQuery ==
    \A i, j \in DOMAIN llm_calls : llm_calls[i].client = llm_calls[j].client

\* C28: a request to the decorated route always gets a response: an APIError
\* raised inside gives its own status (400 for BadRequestError, 404 for
\* NotFoundError), any other exception gives 500, and no exception gives 200.
C28_DecoratorAlwaysResponds ==
    /\ config_error = "" => config_status \in {0, StatusOK}
    /\ config_error = "BadRequestError" => config_status = 400
    /\ config_error = "NotFoundError" => config_status = 404
    /\ config_error \notin {"", "BadRequestError", "NotFoundError"} =>
          config_status = 500

C28_Witness ==
    /\ config_error = "AttributeError"
    /\ config_status = 500
    /\ last_update # NoUpdate


---------------------------------------------------------------------------
(* Properties of the ranking *)

\* the section names the variant, by its name or as Response i
NamedIn(names, variant, section) ==
    \/ In(<<variant>>, section)
    \/ In(<<"Response ", ToString(VariantIndex(names, variant))>>, section)
    \/ In(<<"response ", ToString(VariantIndex(names, variant))>>, section)

\* where the section first names the variant
ListedAt(names, variant, section) ==
    LET found == { Find(<<variant>>, section, 1),
                   Find(<<"Response ", ToString(VariantIndex(names, variant))>>,
                        section, 1),
                   Find(<<"response ", ToString(VariantIndex(names, variant))>>,
                        section, 1) } \ {0}
    IN  CHOOSE at \in found : \A other \in found : at <= other

\* C25: _extract_ranking returns; its result holds every input variant
\* exactly once; when the final-ranking section names every variant the
\* result is in the order in which the section lists them, otherwise it is
\* the input order.
C25_RankingFollowsSection ==
    ranking_state \in {"returned", "raised"} =>
        /\ ranking_state = "returned"
        /\ Len(ranking) = Len(variant_names)
        /\ \A i \in 1..Len(variant_names) :
              Cardinality({ j \in 1..Len(ranking) : ranking[j] = variant_names[i] }) = 1
        /\ LET section == RankingSection(comparison)
           IN  IF \A i \in 1..Len(variant_names) :
                     NamedIn(variant_names, variant_names[i], section)
               THEN \A i, j \in 1..Len(ranking) :
                       i < j => ListedAt(variant_names, ranking[i], section)
                                  < ListedAt(variant_names, ranking[j], section)
               ELSE ranking = variant_names


---------------------------------------------------------------------------
(* Properties of query_all_variants *)

\* C26: the variants are queried in list order, each once; when
\* query_all_variants returns, the mapping has exactly the configured
\* variants as keys, a variant whose query raised has an entry that starts
\* with "Error: " and every other variant has its response, also the
\* variants that come after a failing one.
C26_OneEntryPerVariant ==
    /\ variants_pc \in {"loop", "returned"} =>
          /\ variant_i <= Len(variants)
          /\ queried = SubSeq(variants, 1, variant_i)
          /\ DOMAIN results = { variants[i] : i \in 1..variant_i }
    /\ variants_pc = "returned" =>
          /\ queried = variants
          /\ DOMAIN results = { variants[i] : i \in 1..Len(variants) }
          /\ \A i \in 1..Len(variants) :
                results[variants[i]] =
                    IF variant_env[i].raised
                    THEN <<"Error: ", variant_env[i].text>>
                    ELSE <<variant_env[i].text>>

C26_Witness ==
    /\ variants_pc = "returned"
    /\ Len(variants) = 2
    /\ variant_env[1].raised
    /\ ~variant_env[2].raised
    /\ results[variants[1]][1] = "Error: "
    /\ results[variants[2]] = <<"Passwords must be 12 characters.">>


---------------------------------------------------------------------------
(* Properties of the document loader *)

\* C27: a call of a loader's load(), or of load_document, on a path with the
\* suffix .pdf or .txt whose file does not exist ends with FileNotFoundError.
C27_MissingFileIsFileNotFound ==
    (/\ load_pc \in {"returned", "raised"}
     /\ LowerSuffix(file_path.suffix) \in {".pdf", ".txt"}
     /\ ~file_path.exists) =>
        /\ load_pc = "raised"
        /\ load_error = "FileNotFoundError"


---------------------------------------------------------------------------
(* Properties of the vector store manager *)

\* C29: after every call on the manager: a similarity_search or save made
\* while vector_store was unset ended with ValueError and vector_store is
\* still unset; a call that raised left vector_store as it was; and
\* vector_store differs from what it was only after a create_vector_store or
\* load that returned, which set it.
C29_OnlySuccessSetsStore ==
    store_op.op \in StoreOperations =>
        /\ (store_before = Unset /\ store_op.op \in {"save", "similarity_search"})
              => (store_op.error = "ValueError" /\ vector_store = Unset)
        /\ store_op.error # "" => vector_store = store_before
        /\ vector_store # store_before
              => (/\ store_op.op \in {"create_vector_store", "load"}
                  /\ store_op.error = "")
        /\ (store_op.op \in {"create_vector_store", "load"} /\ store_op.error = "")
              => vector_store # Unset

\* a create_vector_store failed on a manager that held a store, which it
\* still holds
C29_Witness ==
    /\ store_op = [op |-> "create_vector_store", error |-> "ValueError"]
    /\ store_before # Unset
    /\ vector_store = store_before

=============================================================================
